---- MODULE Spec2Model ----
(***************************************************************************)
(* Boot dispatch and EL2 -> EL1 transition of the kernel binary            *)
(* (src/_arch/aarch64/cpu.rs) and the page-fault integration test          *)
(* (tests/02_exception_sync_page_fault.rs).                                *)
(*                                                                         *)
(* Spec        : every core runs _start independently.                     *)
(* HarnessSpec : kernel_init of the page-fault test.                       *)
(***************************************************************************)
EXTENDS Naturals, Sequences, FiniteSets

\* ------------------------------------------------------------------ bounds

\* Number of hardware threads that leave reset.
NumCores == 3

Cores == 0 .. (NumCores - 1)

\* Number of drivers in early_print_device_drivers().
NumEarlyDrivers == 2

EarlyDrivers == 1 .. NumEarlyDrivers

\* The messages kernel_map_binary_and_enable_mmu() can fail with.
MmuErrors == {"address space error", "granule not supported"}

\* ------------------------------------------------- architectural constants

\* bsp::cpu::BOOT_CORE_ID, compared with core_id() in _start.
BOOT_CORE_ID == 0

\* Exception levels a core can be released from reset in.
ResetELs == {1, 2, 3}

\* CurrentEL holds the level in bits [3:2]; CurrentEL::EL::EL2.value is the
\* field value shifted into place.
EL_SHIFT == 4
EL2_value == 2 * EL_SHIFT

\* Register values are bit vectors, kept as the set of the bit positions set.
EL1PCEN == {1}
EL1PCTEN == {0}
RW_EL1IsAarch64 == {31}
D_Masked == {9}
A_Masked == {8}
I_Masked == {7}
F_Masked == {6}
\* Mutants: EL2h and EL1t in place of EL1h.
M_EL2h == {0, 3}
M_EL1t == {2}

M_EL1h == {0, 2}

DAIF_BITS == {6, 7, 8, 9}

\* Addresses are symbolic.
ADDR_runtime_init == "runtime_init"
ADDR_phys_boot_core_stack_end == "phys_boot_core_stack_end"

\* What the six registers can hold when a core leaves reset: they are
\* architecturally UNKNOWN, so either all clear or a pattern that is wrong for
\* EL1 in every field.
ClearRegs ==
  [CNTHCTL_EL2 |-> {}, CNTVOFF_EL2 |-> 0, HCR_EL2 |-> {}, SPSR_EL2 |-> {},
   ELR_EL2 |-> "null", SP_EL1 |-> "null"]

UnknownRegs ==
  [CNTHCTL_EL2 |-> {2}, CNTVOFF_EL2 |-> 1, HCR_EL2 |-> {0},
   SPSR_EL2 |-> {0, 3, 4}, ELR_EL2 |-> "unknown", SP_EL1 |-> "unknown"]

ResetRegs == {ClearRegs, UnknownRegs}

VARIABLES
  mpidr,      \* per core: the affinity value core_id() reads
  resetEL,    \* per core: the exception level the core left reset in
  resetRegs,  \* per core: the register contents the core left reset with
  pc,         \* per core: position in _start / el2_to_el1_transition / wait_forever
  el,         \* per core: current exception level (PSTATE.EL)
  daif,       \* per core: PSTATE.{D,A,I,F}, the set of masked classes (as SPSR bits)
  regs,       \* per core: CNTHCTL_EL2, CNTVOFF_EL2, HCR_EL2, SPSR_EL2, ELR_EL2, SP_EL1
  PC,         \* per core: address execution continued at after eret
  SP,         \* per core: the active stack pointer
  steps,      \* per core: the steps of el2_to_el1_transition executed, in order
  entered     \* per core: number of times runtime_init was entered

VARIABLES
  mmuResult,        \* input: what kernel_map_binary_and_enable_mmu() returns
  driverResult,     \* input: per early print driver, what its init() returns
  pageFaults,       \* input: whether an access to an unmapped address raises an exception
  hpc,              \* position in kernel_init
  consoleUp,        \* qemu_bring_up_console() has run
  handlerInstalled, \* exception::handling_init() has run
  mmuEnabled,       \* the MMU is on
  mmioRemapped,     \* post_early_print_device_driver_init() has run
  drv,              \* index of the next early print driver in the list
  inited,           \* the init() calls made so far: <<driver index, result>>, in order
  out,              \* the lines visible on the console, in order
  reads,            \* the addresses read with read_volatile, in order (in KiB)
  exits,            \* the termination signals given to the host, in order
  events            \* the statements of kernel_init executed so far, by name, in order

bootVars == <<mpidr, resetEL, resetRegs, pc, el, daif, regs, PC, SP, steps, entered>>

harnessVars == <<mmuResult, driverResult, pageFaults, hpc, consoleUp, handlerInstalled,
                 mmuEnabled, mmioRemapped, drv, inited, out, reads, exits, events>>

vars == <<bootVars, harnessVars>>

\* ------------------------------------------------------------ pure helpers

\* cpu::smp::core_id(): the core's identifier, read from its affinity register.
core_id(c) == mpidr[c]

\* Mutant: the level number is taken for the register value.
CurrentEL_Unshifted(c) == el[c]

\* CurrentEL.get()
CurrentEL(c) == el[c] * EL_SHIFT

\* Mutant: the core id is not compared.
BootDispatch_NoCoreCheck(c) == CurrentEL(c) = EL2_value

\* Mutant: || in place of &&.
BootDispatch_Or(c) ==
  (BOOT_CORE_ID = core_id(c)) \/ (CurrentEL(c) = EL2_value)

\* The condition of the if in _start.
BootDispatch(c) ==
  (BOOT_CORE_ID = core_id(c)) /\ (CurrentEL(c) = EL2_value)

\* SPSR_EL2.M[3:2]: the exception level an eret returns to.
TargetEL(spsr) == 2 * (IF 3 \in spsr THEN 1 ELSE 0) + (IF 2 \in spsr THEN 1 ELSE 0)

\* SPSR_EL2.M[0]: whether the target uses its dedicated stack pointer (SP_ELx).
UsesDedicatedSP(spsr) == 0 \in spsr

\* A register write: the whole register is replaced.
WriteReg(c, name, value) ==
  /\ regs' = [regs EXCEPT ![c][name] = value]
  /\ steps' = [steps EXCEPT ![c] = Append(@, name)]

\* ------------------------------------------------------------------- Init

BootInit ==
  /\ mpidr \in {[c \in Cores |-> (c + k) % NumCores] : k \in Cores}
  /\ resetEL \in [Cores -> ResetELs]
  /\ resetRegs \in [Cores -> ResetRegs]
  /\ pc = [c \in Cores |-> "_start"]
  /\ el = resetEL
  /\ daif = [c \in Cores |-> DAIF_BITS]
  /\ regs = resetRegs
  /\ PC = [c \in Cores |-> "_start"]
  /\ SP = [c \in Cores |-> "unset"]
  /\ steps = [c \in Cores |-> <<>>]
  /\ entered = [c \in Cores |-> 0]

\* kernel_init has not started: the state of the harness while the cores boot.
HarnessIdle ==
  /\ mmuResult = "Ok"
  /\ driverResult = [i \in EarlyDrivers |-> "Ok"]
  /\ pageFaults = TRUE
  /\ hpc = "idle"
  /\ consoleUp = FALSE
  /\ handlerInstalled = FALSE
  /\ mmuEnabled = FALSE
  /\ mmioRemapped = FALSE
  /\ drv = 1
  /\ inited = <<>>
  /\ out = <<>>
  /\ reads = <<>>
  /\ exits = <<>>
  /\ events = <<>>

Init == BootInit /\ HarnessIdle

\* ---------------------------------------------------------------- actions

\* Mutant: the first write of the transition is made before the choice.
Start_WritesFirst(c) ==
  /\ pc[c] = "_start"
  /\ WriteReg(c, "CNTHCTL_EL2", EL1PCEN \cup EL1PCTEN)
  /\ pc' = [pc EXCEPT ![c] = IF BootDispatch(c) THEN "CNTVOFF_EL2" ELSE "wait_forever"]
  /\ UNCHANGED <<mpidr, resetEL, resetRegs, el, daif, PC, SP, entered, harnessVars>>

\* _start: the two-way choice.
Start(c) ==
  /\ pc[c] = "_start"
  /\ pc' = [pc EXCEPT ![c] = IF BootDispatch(c) THEN "CNTHCTL_EL2" ELSE "wait_forever"]
  /\ UNCHANGED <<mpidr, resetEL, resetRegs, el, daif, regs, PC, SP, steps, entered, harnessVars>>

\* el2_to_el1_transition, one action per statement.
WriteCNTHCTL_EL2(c) ==
  /\ pc[c] = "CNTHCTL_EL2"
  /\ WriteReg(c, "CNTHCTL_EL2", EL1PCEN \cup EL1PCTEN)
  /\ pc' = [pc EXCEPT ![c] = "CNTVOFF_EL2"]
  /\ UNCHANGED <<mpidr, resetEL, resetRegs, el, daif, PC, SP, entered, harnessVars>>

SetCNTVOFF_EL2(c) ==
  /\ pc[c] = "CNTVOFF_EL2"
  /\ WriteReg(c, "CNTVOFF_EL2", 0)
  /\ pc' = [pc EXCEPT ![c] = "HCR_EL2"]
  /\ UNCHANGED <<mpidr, resetEL, resetRegs, el, daif, PC, SP, entered, harnessVars>>

\* Mutant: the write of HCR_EL2 is left out.
WriteHCR_EL2_LeftOut(c) ==
  /\ pc[c] = "HCR_EL2"
  /\ pc' = [pc EXCEPT ![c] = "SPSR_EL2"]
  /\ UNCHANGED <<mpidr, resetEL, resetRegs, el, daif, regs, PC, SP, steps, entered,
                 harnessVars>>

WriteHCR_EL2(c) ==
  /\ pc[c] = "HCR_EL2"
  /\ WriteReg(c, "HCR_EL2", RW_EL1IsAarch64)
  /\ pc' = [pc EXCEPT ![c] = "SPSR_EL2"]
  /\ UNCHANGED <<mpidr, resetEL, resetRegs, el, daif, PC, SP, entered, harnessVars>>

\* Mutant: FIQ is left unmasked.
FakedSPSR_FiqUnmasked ==
  D_Masked \cup A_Masked \cup I_Masked \cup M_EL1h

\* The saved program status el2_to_el1_transition fakes.
FakedSPSR ==
  D_Masked \cup A_Masked \cup I_Masked \cup F_Masked \cup M_EL1h

WriteSPSR_EL2(c) ==
  /\ pc[c] = "SPSR_EL2"
  /\ WriteReg(c, "SPSR_EL2", FakedSPSR)
  /\ pc' = [pc EXCEPT ![c] = "ELR_EL2"]
  /\ UNCHANGED <<mpidr, resetEL, resetRegs, el, daif, PC, SP, entered, harnessVars>>

SetELR_EL2(c) ==
  /\ pc[c] = "ELR_EL2"
  /\ WriteReg(c, "ELR_EL2", ADDR_runtime_init)
  /\ pc' = [pc EXCEPT ![c] = "SP_EL1"]
  /\ UNCHANGED <<mpidr, resetEL, resetRegs, el, daif, PC, SP, entered, harnessVars>>

SetSP_EL1(c) ==
  /\ pc[c] = "SP_EL1"
  /\ WriteReg(c, "SP_EL1", ADDR_phys_boot_core_stack_end)
  /\ pc' = [pc EXCEPT ![c] = "eret"]
  /\ UNCHANGED <<mpidr, resetEL, resetRegs, el, daif, PC, SP, entered, harnessVars>>

\* asm::eret(): PSTATE is restored from SPSR_EL2 and execution continues at
\* ELR_EL2. runtime_init is entered when that address is runtime_init.
Eret(c) ==
  /\ pc[c] = "eret"
  /\ steps' = [steps EXCEPT ![c] = Append(@, "eret")]
  /\ el' = [el EXCEPT ![c] = TargetEL(regs[c].SPSR_EL2)]
  /\ daif' = [daif EXCEPT ![c] = regs[c].SPSR_EL2 \cap DAIF_BITS]
  /\ PC' = [PC EXCEPT ![c] = regs[c].ELR_EL2]
  /\ SP' = [SP EXCEPT ![c] =
              IF UsesDedicatedSP(regs[c].SPSR_EL2) /\ TargetEL(regs[c].SPSR_EL2) = 1
              THEN regs[c].SP_EL1 ELSE "unknown"]
  /\ IF regs[c].ELR_EL2 = ADDR_runtime_init
     THEN /\ pc' = [pc EXCEPT ![c] = "runtime_init"]
          /\ entered' = [entered EXCEPT ![c] = @ + 1]
     ELSE /\ pc' = [pc EXCEPT ![c] = "lost"]
          /\ UNCHANGED entered
  /\ UNCHANGED <<mpidr, resetEL, resetRegs, regs, harnessVars>>

\* wait_forever: loop { wfe }. The core sleeps in wfe ...
Wfe(c) ==
  /\ pc[c] = "wait_forever"
  /\ pc' = [pc EXCEPT ![c] = "wfe"]
  /\ UNCHANGED <<mpidr, resetEL, resetRegs, el, daif, regs, PC, SP, steps, entered, harnessVars>>

\* Mutant: no loop around wfe, the woken core runs on into the transition.
WfeWake_NoLoop(c) ==
  /\ pc[c] = "wfe"
  /\ pc' = [pc EXCEPT ![c] = "CNTHCTL_EL2"]
  /\ UNCHANGED <<mpidr, resetEL, resetRegs, el, daif, regs, PC, SP, steps, entered, harnessVars>>

\* ... and an event wakes it, which takes it back to the head of the loop.
WfeWake(c) ==
  /\ pc[c] = "wfe"
  /\ pc' = [pc EXCEPT ![c] = "wait_forever"]
  /\ UNCHANGED <<mpidr, resetEL, resetRegs, el, daif, regs, PC, SP, steps, entered, harnessVars>>

Next ==
  \E c \in Cores :
    \/ Start(c)
    \/ WriteCNTHCTL_EL2(c)
    \/ SetCNTVOFF_EL2(c)
    \/ WriteHCR_EL2(c)
    \/ WriteSPSR_EL2(c)
    \/ SetELR_EL2(c)
    \/ SetSP_EL1(c)
    \/ Eret(c)
    \/ Wfe(c)
    \/ WfeWake(c)

Spec == Init /\ [][Next]_vars

\* ----------------------------------------------------- properties of boot

\* Positions inside wait_forever and inside el2_to_el1_transition.
ParkedPCs == {"wait_forever", "wfe"}
TransitionPCs ==
  {"CNTHCTL_EL2", "CNTVOFF_EL2", "HCR_EL2", "SPSR_EL2", "ELR_EL2", "SP_EL1", "eret"}

\* How often e occurs in the sequence s.
Count(s, e) == Cardinality({i \in DOMAIN s : s[i] = e})

\* Whether c is the boot core, and whether it has gone past the dispatch into
\* the transition.
IsBootCore(c) == mpidr[c] = BOOT_CORE_ID
Proceeded(c) == pc[c] \notin ({"_start"} \cup ParkedPCs)

\* C1: a core whose core id is not the boot core id, whatever level it left
\* reset at, is in _start or in wait_forever: it is at no step of
\* el2_to_el1_transition, has executed none (no register write, no eret), its
\* registers are as reset left them and it never entered runtime_init.
C1_NonBootCoreParks ==
  \A c \in Cores :
    ~IsBootCore(c) =>
      /\ pc[c] \in {"_start"} \cup ParkedPCs
      /\ steps[c] = <<>>
      /\ regs[c] = resetRegs[c]
      /\ el[c] = resetEL[c]
      /\ entered[c] = 0

\* C1 witness: a non-boot core that left reset at EL2 and one that left reset
\* at another level are parked, and the boot core is in runtime_init.
C1_Witness ==
  /\ \E c, d \in Cores :
       /\ ~IsBootCore(c) /\ resetEL[c] = 2 /\ pc[c] \in ParkedPCs
       /\ ~IsBootCore(d) /\ resetEL[d] # 2 /\ pc[d] \in ParkedPCs
  /\ \E c \in Cores : IsBootCore(c) /\ pc[c] = "runtime_init"

\* C2 as stated: once every core has left _start, exactly one core has
\* proceeded past the dispatch.
C2_ExactlyOneProceeds ==
  (\A c \in Cores : pc[c] # "_start") =>
    Cardinality({c \in Cores : Proceeded(c)}) = 1

\* C2 amended: under every interleaving at most one core proceeds past the
\* dispatch, and only the boot core when it left reset at EL2; that core is
\* then on its way through el2_to_el1_transition or in runtime_init. Every
\* other core, and the boot core that left reset at another level, is parked
\* once it has left _start.
C2_AtMostOneProceeds ==
  /\ Cardinality({c \in Cores : Proceeded(c)}) <= 1
  /\ \A c \in Cores :
       /\ Proceeded(c) =>
            /\ IsBootCore(c) /\ resetEL[c] = 2
            /\ pc[c] \in TransitionPCs \cup {"runtime_init"}
       /\ (pc[c] # "_start" /\ IsBootCore(c) /\ resetEL[c] = 2) => Proceeded(c)
       /\ (pc[c] # "_start" /\ ~(IsBootCore(c) /\ resetEL[c] = 2)) =>
            pc[c] \in ParkedPCs

\* C2 witness: the boot core is in runtime_init while every other core is
\* parked, all of them having left reset at EL2.
C2_Witness ==
  /\ \A c \in Cores : resetEL[c] = 2
  /\ \E c \in Cores :
       /\ pc[c] = "runtime_init"
       /\ \A d \in Cores \ {c} : pc[d] \in ParkedPCs

\* C3: the boot core that left reset at EL2 is in _start, on its way through
\* el2_to_el1_transition or in runtime_init, and executes eret at most once;
\* before it the core is at EL2 and runtime_init has not been entered, after it
\* the core is at EL1 and in runtime_init, entered exactly once.
C3_OneEretToEL1 ==
  \A c \in Cores :
    (IsBootCore(c) /\ resetEL[c] = 2) =>
      /\ Count(steps[c], "eret") <= 1
      /\ pc[c] \in {"_start"} \cup TransitionPCs \cup {"runtime_init"}
      /\ Count(steps[c], "eret") = 0 =>
           /\ el[c] = 2
           /\ entered[c] = 0
           /\ pc[c] # "runtime_init"
      /\ Count(steps[c], "eret") = 1 =>
           /\ el[c] = 1
           /\ entered[c] = 1
           /\ pc[c] = "runtime_init"

\* C3 witness: the boot core went from EL2 through eret with registers that
\* reset had left unknown.
C3_Witness ==
  \E c \in Cores :
    /\ IsBootCore(c) /\ resetEL[c] = 2 /\ resetRegs[c] = UnknownRegs
    /\ Count(steps[c], "eret") = 1

\* C4: a core that has left _start is either parked or in the transition,
\* never both and never neither, and it is in the transition exactly when its
\* core id is the boot core id and it left reset at EL2.
C4_DispatchIsTotalTwoWay ==
  \A c \in Cores :
    /\ pc[c] = "_start" => steps[c] = <<>>
    /\ pc[c] # "_start" =>
         /\ (pc[c] \in ParkedPCs) # (pc[c] \in TransitionPCs \cup {"runtime_init"})
         /\ (pc[c] \in ParkedPCs) => steps[c] = <<>>
         /\ (pc[c] \notin ParkedPCs) <=> (mpidr[c] = BOOT_CORE_ID /\ resetEL[c] = 2)

\* C4 witness: the boot core found at a level other than EL2 is parked while a
\* core with another id that left reset at EL2 is parked too.
C4_Witness ==
  \E c, d \in Cores :
    /\ IsBootCore(c) /\ resetEL[c] # 2 /\ pc[c] \in ParkedPCs
    /\ ~IsBootCore(d) /\ resetEL[d] = 2 /\ pc[d] \in ParkedPCs

\* C5: when a core is about to execute eret, SPSR_EL2 has D, A, I and F (bits
\* 9, 8, 7, 6) set and M[4:0] = 0b00101 (EL1h); after the eret the core runs
\* with the four classes masked.
C5_EretWithMaskedEL1h ==
  \A c \in Cores :
    /\ pc[c] = "eret" =>
         /\ {6, 7, 8, 9} \subseteq regs[c].SPSR_EL2
         /\ regs[c].SPSR_EL2 \cap {0, 1, 2, 3, 4} = {0, 2}
    /\ Count(steps[c], "eret") > 0 =>
         /\ daif[c] = {6, 7, 8, 9}
         /\ regs[c].SPSR_EL2 \cap {0, 1, 2, 3, 4} = {0, 2}

\* C5 witness: a core is about to execute eret, its SPSR_EL2 having left reset
\* with the classes unmasked and another mode.
C5_Witness ==
  \E c \in Cores :
    /\ pc[c] = "eret"
    /\ resetRegs[c].SPSR_EL2 \cap {6, 7, 8, 9} = {}
    /\ resetRegs[c].SPSR_EL2 \cap {0, 1, 2, 3, 4} # {0, 2}

\* Position of the first e in s (0 when there is none).
IndexOf(s, e) ==
  IF \E i \in DOMAIN s : s[i] = e
  THEN CHOOSE i \in DOMAIN s : s[i] = e /\ \A j \in 1 .. (i - 1) : s[j] # e
  ELSE 0

\* C6: once eret has executed, execution is in runtime_init with the program
\* counter at the address written to ELR_EL2 and the stack pointer at the value
\* written to SP_EL1; each of the two registers was written exactly once,
\* before the eret, and holds the written value from its write on.
C6_EntryPCAndSP ==
  \A c \in Cores :
    /\ Count(steps[c], "ELR_EL2") <= 1
    /\ Count(steps[c], "SP_EL1") <= 1
    /\ Count(steps[c], "ELR_EL2") = 1 => regs[c].ELR_EL2 = "runtime_init"
    /\ Count(steps[c], "SP_EL1") = 1 => regs[c].SP_EL1 = "phys_boot_core_stack_end"
    /\ Count(steps[c], "eret") > 0 =>
         /\ pc[c] = "runtime_init"
         /\ PC[c] = "runtime_init"
         /\ SP[c] = "phys_boot_core_stack_end"
         /\ IndexOf(steps[c], "ELR_EL2") \in 1 .. (IndexOf(steps[c], "eret") - 1)
         /\ IndexOf(steps[c], "SP_EL1") \in 1 .. (IndexOf(steps[c], "eret") - 1)

\* C6 witness: runtime_init has been entered by a core whose ELR_EL2 and SP_EL1
\* left reset with other contents.
C6_Witness ==
  \E c \in Cores :
    /\ pc[c] = "runtime_init"
    /\ resetRegs[c].ELR_EL2 # "runtime_init"
    /\ resetRegs[c].SP_EL1 # "phys_boot_core_stack_end"

\* C7: a parked core stays parked: in every step it remains inside
\* wait_forever, executes no step of the transition, does not enter
\* runtime_init, keeps its level and registers, and a step of its own gives no
\* termination signal.
C7_ParkedForever ==
  [][\A c \in Cores :
       pc[c] \in ParkedPCs =>
         /\ pc'[c] \in ParkedPCs
         /\ steps'[c] = steps[c]
         /\ entered'[c] = entered[c]
         /\ regs'[c] = regs[c]
         /\ el'[c] = el[c]
         /\ pc'[c] # pc[c] => exits' = exits]_vars

\* C7 witness: a core sleeps in wfe after the boot core has entered
\* runtime_init.
C7_Witness ==
  \E c, d \in Cores :
    /\ pc[c] = "wfe"
    /\ pc[d] = "runtime_init"

\* ------------------------------------------------------------ kernel_init

\* let big_addr: u64 = 9 * 1024 * 1024 * 1024; the model keeps the addresses of
\* the harness in KiB, so that they fit its integers.
big_addr == 9 * 1024 * 1024

\* println!: a line is its format string followed by its arguments. The line reaches the console
\* only while the console driver's MMIO is reachable, which it is not between
\* enabling the MMU and the remap.
PrintingWorks == consoleUp /\ (mmuEnabled => mmioRemapped)

Println(line) ==
  /\ out' = (IF PrintingWorks THEN Append(out, line) ELSE out)
  /\ events' = Append(events, "println")

\* A statement other than println! and the exits has been executed.
Event(e) == events' = Append(events, e)

\* Mutant: the failure exit gives the success code.
qemu_exit_failure_AsSuccess ==
  /\ exits' = Append(exits, "Success")
  /\ hpc' = "exited"

\* cpu::qemu_exit_failure() / cpu::qemu_exit_success(): the host QEMU exits.
qemu_exit_failure ==
  /\ exits' = Append(exits, "Failure")
  /\ hpc' = "exited"

qemu_exit_success ==
  /\ exits' = Append(exits, "Success")
  /\ hpc' = "exited"

\* The boot core has entered runtime_init and the other cores are parked: the
\* state of the cores while kernel_init runs.
BootDone ==
  /\ mpidr = [c \in Cores |-> c]
  /\ resetEL = [c \in Cores |-> 2]
  /\ resetRegs = [c \in Cores |-> ClearRegs]
  /\ pc = [c \in Cores |-> IF c = BOOT_CORE_ID THEN "runtime_init" ELSE "wait_forever"]
  /\ el = [c \in Cores |-> IF c = BOOT_CORE_ID THEN 1 ELSE 2]
  /\ daif = [c \in Cores |-> DAIF_BITS]
  /\ regs = [c \in Cores |->
               IF c = BOOT_CORE_ID
               THEN [CNTHCTL_EL2 |-> EL1PCEN \cup EL1PCTEN, CNTVOFF_EL2 |-> 0,
                     HCR_EL2 |-> RW_EL1IsAarch64, SPSR_EL2 |-> FakedSPSR,
                     ELR_EL2 |-> ADDR_runtime_init,
                     SP_EL1 |-> ADDR_phys_boot_core_stack_end]
               ELSE resetRegs[c]]
  /\ PC = [c \in Cores |-> IF c = BOOT_CORE_ID THEN ADDR_runtime_init ELSE "_start"]
  /\ SP = [c \in Cores |->
             IF c = BOOT_CORE_ID THEN ADDR_phys_boot_core_stack_end ELSE "unset"]
  /\ steps = [c \in Cores |->
                IF c = BOOT_CORE_ID
                THEN <<"CNTHCTL_EL2", "CNTVOFF_EL2", "HCR_EL2", "SPSR_EL2", "ELR_EL2",
                       "SP_EL1", "eret">>
                ELSE <<>>]
  /\ entered = [c \in Cores |-> IF c = BOOT_CORE_ID THEN 1 ELSE 0]

\* kernel_init is entered with the results of the external operations still
\* to be seen.
HarnessInit ==
  /\ mmuResult \in {"Ok"} \cup MmuErrors
  /\ driverResult \in [EarlyDrivers -> {"Ok", "Err"}]
  /\ pageFaults \in BOOLEAN
  /\ hpc = "qemu_bring_up_console"
  /\ consoleUp = FALSE
  /\ handlerInstalled = FALSE
  /\ mmuEnabled = FALSE
  /\ mmioRemapped = FALSE
  /\ drv = 1
  /\ inited = <<>>
  /\ out = <<>>
  /\ reads = <<>>
  /\ exits = <<>>
  /\ events = <<>>

\* bsp::console::qemu_bring_up_console();
BringUpConsole ==
  /\ hpc = "qemu_bring_up_console"
  /\ Event("qemu_bring_up_console")
  /\ consoleUp' = TRUE
  /\ hpc' = "println_testing"
  /\ UNCHANGED <<bootVars, mmuResult, driverResult, pageFaults, handlerInstalled,
                 mmuEnabled, mmioRemapped, drv, inited, out, reads, exits>>

\* println!("Testing synchronous exception handling by causing a page fault");
PrintlnTesting ==
  /\ hpc = "println_testing"
  /\ Println(<<"Testing synchronous exception handling by causing a page fault">>)
  /\ hpc' = "println_rule"
  /\ UNCHANGED <<bootVars, mmuResult, driverResult, pageFaults, consoleUp,
                 handlerInstalled, mmuEnabled, mmioRemapped, drv, inited, reads, exits>>

\* println!("-------------------------------------------------------------------\n");
PrintlnRule ==
  /\ hpc = "println_rule"
  /\ Println(<<"-------------------------------------------------------------------">>)
  /\ hpc' = "handling_init"
  /\ UNCHANGED <<bootVars, mmuResult, driverResult, pageFaults, consoleUp,
                 handlerInstalled, mmuEnabled, mmioRemapped, drv, inited, reads, exits>>

\* Mutant: exception handling is not initialised.
HandlingInit_LeftOut ==
  /\ hpc = "handling_init"
  /\ hpc' = "enable_mmu"
  /\ UNCHANGED <<bootVars, mmuResult, driverResult, pageFaults, consoleUp,
                 handlerInstalled, mmuEnabled, mmioRemapped, drv, inited, out, reads,
                 exits, events>>

\* exception::handling_init();
HandlingInit ==
  /\ hpc = "handling_init"
  /\ Event("handling_init")
  /\ handlerInstalled' = TRUE
  /\ hpc' = "enable_mmu"
  /\ UNCHANGED <<bootVars, mmuResult, driverResult, pageFaults, consoleUp, mmuEnabled,
                 mmioRemapped, drv, inited, out, reads, exits>>

\* Mutant: the result of enabling the MMU is ignored.
EnableMmu_IgnoreErr ==
  /\ hpc = "enable_mmu"
  /\ Event("enable_mmu")
  /\ mmuEnabled' = (mmuResult = "Ok")
  /\ hpc' = "driver_init"
  /\ UNCHANGED <<bootVars, mmuResult, driverResult, pageFaults, consoleUp,
                 handlerInstalled, mmioRemapped, drv, inited, out, reads, exits>>

\* if let Err(string) = memory::mmu::kernel_map_binary_and_enable_mmu() { ... }
EnableMmu ==
  /\ hpc = "enable_mmu"
  /\ Event("enable_mmu")
  /\ IF mmuResult = "Ok"
     THEN /\ mmuEnabled' = TRUE
          /\ hpc' = "driver_init"
     ELSE /\ UNCHANGED mmuEnabled
          /\ hpc' = "println_mmu_failed"
  /\ UNCHANGED <<bootVars, mmuResult, driverResult, pageFaults, consoleUp,
                 handlerInstalled, mmioRemapped, drv, inited, out, reads, exits>>

\* Mutant: the error is not reported.
PrintlnMmuFailed_Silent ==
  /\ hpc = "println_mmu_failed"
  /\ hpc' = "exit_mmu_failed"
  /\ UNCHANGED <<bootVars, mmuResult, driverResult, pageFaults, consoleUp,
                 handlerInstalled, mmuEnabled, mmioRemapped, drv, inited, out, reads,
                 exits, events>>

\* println!("Enabling MMU failed: {}", string);
PrintlnMmuFailed ==
  /\ hpc = "println_mmu_failed"
  /\ Println(<<"Enabling MMU failed: ", mmuResult>>)
  /\ hpc' = "exit_mmu_failed"
  /\ UNCHANGED <<bootVars, mmuResult, driverResult, pageFaults, consoleUp,
                 handlerInstalled, mmuEnabled, mmioRemapped, drv, inited, reads, exits>>

\* cpu::qemu_exit_failure() of the Err branch.
ExitMmuFailed ==
  /\ hpc = "exit_mmu_failed"
  /\ qemu_exit_failure
  /\ UNCHANGED <<bootVars, mmuResult, driverResult, pageFaults, consoleUp,
                 handlerInstalled, mmuEnabled, mmioRemapped, drv, inited, out, reads,
                 events>>

\* Mutant: the result of init() is dropped and the loop goes on.
DriverInit_IgnoreErr ==
  /\ hpc = "driver_init"
  /\ Event("init")
  /\ drv \in EarlyDrivers
  /\ inited' = Append(inited, <<drv, driverResult[drv]>>)
  /\ drv' = drv + 1
  /\ hpc' = "driver_init"
  /\ UNCHANGED <<bootVars, mmuResult, driverResult, pageFaults, consoleUp,
                 handlerInstalled, mmuEnabled, mmioRemapped, out, reads, exits>>

\* Mutant: the exit in the closure signals Failure and returns, so the loop
\* goes on.
DriverInit_ExitReturns ==
  /\ hpc = "driver_init"
  /\ Event("init")
  /\ drv \in EarlyDrivers
  /\ inited' = Append(inited, <<drv, driverResult[drv]>>)
  /\ drv' = drv + 1
  /\ hpc' = "driver_init"
  /\ exits' = (IF driverResult[drv] = "Ok" THEN exits ELSE Append(exits, "Failure"))
  /\ UNCHANGED <<bootVars, mmuResult, driverResult, pageFaults, consoleUp,
                 handlerInstalled, mmuEnabled, mmioRemapped, out, reads>>

\* One iteration of the loop over early_print_device_drivers():
\* i.init().unwrap_or_else(|_| cpu::qemu_exit_failure());
DriverInit ==
  /\ hpc = "driver_init"
  /\ Event("init")
  /\ drv \in EarlyDrivers
  /\ inited' = Append(inited, <<drv, driverResult[drv]>>)
  /\ IF driverResult[drv] = "Ok"
     THEN /\ drv' = drv + 1
          /\ hpc' = "driver_init"
          /\ UNCHANGED exits
     ELSE /\ UNCHANGED drv
          /\ qemu_exit_failure
  /\ UNCHANGED <<bootVars, mmuResult, driverResult, pageFaults, consoleUp,
                 handlerInstalled, mmuEnabled, mmioRemapped, out, reads>>

\* Mutant: the loop can be left after the first driver.
PostEarlyPrintDeviceDriverInit_Early ==
  /\ hpc = "driver_init"
  /\ Event("post_early_print_device_driver_init")
  /\ drv > 1
  /\ mmioRemapped' = TRUE
  /\ hpc' = "println_writing"
  /\ UNCHANGED <<bootVars, mmuResult, driverResult, pageFaults, consoleUp,
                 handlerInstalled, mmuEnabled, drv, inited, out, reads, exits>>

\* The loop is over: bsp::driver::driver_manager().post_early_print_device_driver_init();
PostEarlyPrintDeviceDriverInit ==
  /\ hpc = "driver_init"
  /\ Event("post_early_print_device_driver_init")
  /\ drv \notin EarlyDrivers
  /\ mmioRemapped' = TRUE
  /\ hpc' = "println_writing"
  /\ UNCHANGED <<bootVars, mmuResult, driverResult, pageFaults, consoleUp,
                 handlerInstalled, mmuEnabled, drv, inited, out, reads, exits>>

\* println!("Writing beyond mapped area to address 9 GiB...");
PrintlnWriting ==
  /\ hpc = "println_writing"
  /\ Println(<<"Writing beyond mapped area to address 9 GiB...">>)
  /\ hpc' = "read_volatile"
  /\ UNCHANGED <<bootVars, mmuResult, driverResult, pageFaults, consoleUp,
                 handlerInstalled, mmuEnabled, mmioRemapped, drv, inited, reads, exits>>

\* Whether the read of an address outside every mapped region is diverted.
Faults == mmuEnabled /\ pageFaults

\* Mutant: a plain read whose result is unused, which the compiler drops.
ReadVolatile_OptimizedAway ==
  /\ hpc = "read_volatile"
  /\ hpc' = "exit_fallthrough"
  /\ UNCHANGED <<bootVars, mmuResult, driverResult, pageFaults, consoleUp,
                 handlerInstalled, mmuEnabled, mmioRemapped, drv, inited, out, reads,
                 exits,
                 events>>

\* core::ptr::read_volatile(big_addr as *mut u64);
ReadVolatile ==
  /\ hpc = "read_volatile"
  /\ Event("read_volatile")
  /\ reads' = Append(reads, big_addr)
  /\ hpc' = (IF Faults THEN "sync_exception" ELSE "exit_fallthrough")
  /\ UNCHANGED <<bootVars, mmuResult, driverResult, pageFaults, consoleUp,
                 handlerInstalled, mmuEnabled, mmioRemapped, drv, inited, out, exits>>

\* The synchronous exception is taken: the handler installed by handling_init
\* panics, which prints and calls _panic_exit(). With no handler installed the
\* core is lost.
SyncException ==
  /\ hpc = "sync_exception"
  /\ IF handlerInstalled
     THEN /\ Println(<<"Kernel panic: CPU Exception!">>)
          /\ hpc' = "_panic_exit"
     ELSE /\ UNCHANGED <<out, events>>
          /\ hpc' = "hung"
  /\ UNCHANGED <<bootVars, mmuResult, driverResult, pageFaults, consoleUp,
                 handlerInstalled, mmuEnabled, mmioRemapped, drv, inited, reads, exits>>

\* panic_exit_success: _panic_exit() is the QEMU-exit version, exiting with success.
PanicExit ==
  /\ hpc = "_panic_exit"
  /\ qemu_exit_success
  /\ UNCHANGED <<bootVars, mmuResult, driverResult, pageFaults, consoleUp,
                 handlerInstalled, mmuEnabled, mmioRemapped, drv, inited, out, reads,
                 events>>

\* The read returned: cpu::qemu_exit_failure() at the end of kernel_init.
ExitFallThrough ==
  /\ hpc = "exit_fallthrough"
  /\ qemu_exit_failure
  /\ UNCHANGED <<bootVars, mmuResult, driverResult, pageFaults, consoleUp,
                 handlerInstalled, mmuEnabled, mmioRemapped, drv, inited, out, reads,
                 events>>

HarnessNext ==
  \/ BringUpConsole
  \/ PrintlnTesting
  \/ PrintlnRule
  \/ HandlingInit
  \/ EnableMmu
  \/ PrintlnMmuFailed
  \/ ExitMmuFailed
  \/ DriverInit
  \/ PostEarlyPrintDeviceDriverInit
  \/ PrintlnWriting
  \/ ReadVolatile
  \/ SyncException
  \/ PanicExit
  \/ ExitFallThrough

HInit == BootDone /\ HarnessInit

HarnessSpec == HInit /\ [][HarnessNext]_vars

\* ------------------------------------------------ properties of kernel_init

\* The elements of a sequence.
Range(s) == {s[i] : i \in DOMAIN s}

\* Enabling the MMU succeeds, every early print driver initialises and the
\* unmapped access raises an exception.
AllGoesWell ==
  /\ mmuResult = "Ok"
  /\ \A i \in EarlyDrivers : driverResult[i] = "Ok"
  /\ pageFaults

\* C8: when enabling the MMU succeeds, every early print driver initialises
\* and the read of 9 * 1024^3 raises a synchronous exception, the final
\* qemu_exit_failure of kernel_init is never reached, Failure is never
\* signalled, and the run can only end with the single signal Success, given
\* after that one read.
C8_FaultEndsInSuccess ==
  AllGoesWell =>
    /\ hpc \notin {"exit_fallthrough", "hung"}
    /\ "Failure" \notin Range(exits)
    /\ Len(exits) <= 1
    /\ exits # <<>> => reads = <<9 * 1024 * 1024>>
    /\ ~ENABLED HarnessNext => exits = <<"Success">>

\* C8 witness: such a run has ended with Success.
C8_Witness ==
  /\ AllGoesWell
  /\ hpc = "exited"
  /\ exits = <<"Success">>
  /\ reads = <<9 * 1024 * 1024>>

\* C9: when the read of 9 GiB has been made and raised no exception,
\* execution is at the final qemu_exit_failure or past it, Success is never
\* signalled, and the run can only end with the single signal Failure.
C9_NoFaultEndsInFailure ==
  (reads # <<>> /\ ~(mmuEnabled /\ pageFaults)) =>
    /\ hpc \in {"exit_fallthrough", "exited"}
    /\ "Success" \notin Range(exits)
    /\ hpc = "exited" => exits = <<"Failure">>
    /\ ~ENABLED HarnessNext => exits = <<"Failure">>

\* C9 witness: the read returned and the run has ended with Failure.
C9_Witness ==
  /\ reads = <<9 * 1024 * 1024>>
  /\ ~pageFaults
  /\ hpc = "exited"
  /\ exits = <<"Failure">>

\* C10: when kernel_map_binary_and_enable_mmu returns an error, no early
\* driver is initialised, the remap is not done, the read is never made, and
\* after the call the harness only reports and signals Failure: the run can
\* only end with the single signal Failure.
C10_MmuErrorEndsInFailure ==
  mmuResult # "Ok" =>
    /\ inited = <<>>
    /\ reads = <<>>
    /\ ~mmuEnabled /\ ~mmioRemapped
    /\ hpc \in {"qemu_bring_up_console", "println_testing", "println_rule",
                "handling_init", "enable_mmu", "println_mmu_failed",
                "exit_mmu_failed", "exited"}
    /\ "Success" \notin Range(exits)
    /\ hpc = "exited" => exits = <<"Failure">>
    /\ ~ENABLED HarnessNext => exits = <<"Failure">>

\* C10 witness: the MMU could not be enabled and the run has ended with
\* Failure.
C10_Witness ==
  /\ mmuResult \in MmuErrors
  /\ hpc = "exited"
  /\ exits = <<"Failure">>

\* Some early print driver's init() has returned an error.
DriverFailed == \E k \in DOMAIN inited : inited[k][2] = "Err"

C13_DriverFailureParksSilently ==
  DriverFailed => (exits = <<>> /\ hpc # "exited")

\* The last element of a non-empty sequence.
Last(s) == s[Len(s)]

\* The statements that can fail: the position of the last of them executed
\* (0 when there is none).
FailingStatements == {"enable_mmu", "init", "read_volatile"}
LastFailing ==
  IF \E i \in DOMAIN events : events[i] \in FailingStatements
  THEN CHOOSE i \in DOMAIN events :
         /\ events[i] \in FailingStatements
         /\ \A j \in (i + 1) .. Len(events) : events[j] \notin FailingStatements
  ELSE 0

\* C14 as stated: whenever Failure has been signalled while printing works, a
\* line was printed on the failure path, that is after the statement that
\* failed and before the signal.
C14_FailureAfterDiagnostic ==
  (exits = <<"Failure">> /\ PrintingWorks) =>
    \E j \in (LastFailing + 1) .. Len(events) : events[j] = "println"

\* C14 amended: a Failure signalled while printing works is preceded on its
\* failure path by a printed diagnostic only when enabling the MMU failed: the
\* last statement before the signal is then the println of "Enabling MMU
\* failed: " with the message, and the line is on the console. When the read
\* did not fault, nothing is printed between the read and the signal: the last
\* line on the console is the announcement printed before the read.
C14_DiagnosticOnMmuErrorOnly ==
  (exits = <<"Failure">> /\ PrintingWorks) =>
    /\ mmuResult # "Ok" =>
         /\ Last(events) = "println"
         /\ LastFailing = Len(events) - 1
         /\ events[LastFailing] = "enable_mmu"
         /\ Last(out) = <<"Enabling MMU failed: ", mmuResult>>
    /\ mmuResult = "Ok" =>
         /\ Last(events) = "read_volatile"
         /\ events[Len(events) - 1] = "println"
         /\ Last(out) = <<"Writing beyond mapped area to address 9 GiB...">>

\* C14 witness: Failure has been signalled after the MMU could not be
\* enabled, with the console working.
C14_Witness ==
  /\ exits = <<"Failure">>
  /\ PrintingWorks
  /\ mmuResult \in MmuErrors
  /\ Last(events) = "println"

\* The console shows a report of the MMU error.
HasMmuReport == \E i \in DOMAIN out : out[i][1] = "Enabling MMU failed: "

\* C15: when enabling the MMU failed, the report is on the console before
\* Failure is signalled, and it is the last line of that run; a run that ends
\* with Failure after the read shows no such line and ends with the
\* announcement of the read. The two outputs differ.
C15_MmuErrorReportedAndDistinct ==
  /\ hpc = "exit_mmu_failed" => (HasMmuReport /\ exits = <<>>)
  /\ (exits = <<"Failure">> /\ mmuResult # "Ok") =>
       /\ Last(out) = <<"Enabling MMU failed: ", mmuResult>>
       /\ reads = <<>>
  /\ (exits = <<"Failure">> /\ reads # <<>>) =>
       /\ ~HasMmuReport
       /\ Last(out) = <<"Writing beyond mapped area to address 9 GiB...">>

\* C15 witness: the run ended with Failure and the report of the MMU error is
\* the last line on the console.
C15_Witness ==
  /\ exits = <<"Failure">>
  /\ mmuResult \in MmuErrors
  /\ HasMmuReport
  /\ Len(out) = 3

\* ------------------------------------------------ further properties of boot

\* C16: a core that is still in _start or is parked has written none of
\* CNTHCTL_EL2, CNTVOFF_EL2, HCR_EL2, SPSR_EL2, ELR_EL2, SP_EL1: it has
\* executed no step of the transition, the six registers hold what reset left
\* in them, no stack pointer is set and the level is the one it left reset at.
C16_NoWriteBeforeDispatch ==
  \A c \in Cores :
    pc[c] \in {"_start"} \cup ParkedPCs =>
      /\ steps[c] = <<>>
      /\ regs[c] = resetRegs[c]
      /\ SP[c] = "unset"
      /\ el[c] = resetEL[c]

\* C16 witness: the boot core that left reset at another level than EL2 and a
\* core with another id are parked, both with registers reset left unknown.
C16_Witness ==
  \E c, d \in Cores :
    /\ IsBootCore(c) /\ resetEL[c] # 2 /\ pc[c] = "wfe"
    /\ ~IsBootCore(d) /\ resetEL[d] = 2 /\ pc[d] = "wfe"
    /\ resetRegs[c] = UnknownRegs /\ resetRegs[d] = UnknownRegs

\* The steps of el2_to_el1_transition in the order of the source.
TransitionOrder ==
  <<"CNTHCTL_EL2", "CNTVOFF_EL2", "HCR_EL2", "SPSR_EL2", "ELR_EL2", "SP_EL1", "eret">>

\* C17: the steps a core has executed are an initial part of CNTHCTL_EL2,
\* CNTVOFF_EL2, HCR_EL2, SPSR_EL2, ELR_EL2, SP_EL1, eret, the next one being the
\* one the core is at; so the six writes precede the eret in that order, and in
\* runtime_init CNTHCTL_EL2 has EL1PCEN and EL1PCTEN (bits 1 and 0) set,
\* CNTVOFF_EL2 is 0 and HCR_EL2.RW (bit 31) is set.
C17_WritesInOrderBeforeEret ==
  \A c \in Cores :
    /\ Len(steps[c]) <= Len(TransitionOrder)
    /\ steps[c] = SubSeq(TransitionOrder, 1, Len(steps[c]))
    /\ pc[c] \in TransitionPCs => pc[c] = TransitionOrder[Len(steps[c]) + 1]
    /\ pc[c] = "runtime_init" =>
         /\ steps[c] = TransitionOrder
         /\ {0, 1} \subseteq regs[c].CNTHCTL_EL2
         /\ regs[c].CNTVOFF_EL2 = 0
         /\ 31 \in regs[c].HCR_EL2

\* C17 witness: a core is in runtime_init whose registers reset had left
\* unknown.
C17_Witness ==
  \E c \in Cores :
    /\ pc[c] = "runtime_init"
    /\ resetRegs[c] = UnknownRegs
    /\ Len(steps[c]) = 7

\* ------------------------------------------ further properties of kernel_init

\* The statements of kernel_init other than println! and the exits, in the
\* order of the source, the loop body once per driver.
HarnessOrder ==
  <<"qemu_bring_up_console", "handling_init", "enable_mmu">>
    \o [i \in EarlyDrivers |-> "init"]
    \o <<"post_early_print_device_driver_init", "read_volatile">>

NotPrintln(e) == e # "println"

\* C18: the statements executed so far, the printing aside, are an initial
\* part of: console bring-up, handling_init, enabling the MMU, init of every
\* early print driver, the remap, the read. The read of big_addr is made at
\* most once, and when it has been made the console was brought up, the MMU
\* was enabled without error, every early print driver initialised without
\* error and the remap was done.
C18_StatesInOrderOneRead ==
  /\ Len(SelectSeq(events, NotPrintln)) <= Len(HarnessOrder)
  /\ SelectSeq(events, NotPrintln) =
       SubSeq(HarnessOrder, 1, Len(SelectSeq(events, NotPrintln)))
  /\ Len(reads) <= 1
  /\ Len(reads) = Count(events, "read_volatile")
  /\ reads # <<>> =>
       /\ reads = <<9 * 1024 * 1024>>
       /\ consoleUp
       /\ mmuResult = "Ok" /\ mmuEnabled
       /\ Len(inited) = NumEarlyDrivers
       /\ \A k \in DOMAIN inited : inited[k][2] = "Ok"
       /\ mmioRemapped

\* C18 witness: the read has been made.
C18_Witness ==
  /\ reads # <<>>
  /\ Last(events) = "read_volatile"
  /\ Len(inited) = NumEarlyDrivers

\* C19: handling_init is executed before the MMU is enabled, so the handler
\* is installed when kernel_map_binary_and_enable_mmu is called, when the read
\* is about to be made and after it.
C19_HandlerInstalledBeforeRead ==
  /\ "enable_mmu" \in Range(events) =>
       IndexOf(events, "handling_init") \in 1 .. (IndexOf(events, "enable_mmu") - 1)
  /\ hpc = "enable_mmu" => handlerInstalled
  /\ hpc = "read_volatile" => handlerInstalled
  /\ reads # <<>> =>
       /\ handlerInstalled
       /\ IndexOf(events, "handling_init") \in
            1 .. (IndexOf(events, "read_volatile") - 1)
  /\ hpc # "hung"

\* C19 witness: the read has faulted and the exception is about to be
\* handled.
C19_Witness ==
  /\ hpc = "sync_exception"
  /\ reads # <<>>
  /\ handlerInstalled

====
